---- MODULE Spec2Model ----
(***************************************************************************)
(* The thread backend of jest-worker (ExperimentalWorker in                *)
(* packages/jest-worker/src/workers/NodeThreadsWorker.js) as a state       *)
(* machine: the object's fields, the messages posted to each thread it     *)
(* creates, and the callbacks it invokes, driven by the three events the   *)
(* object reacts to: send, a 'message' from its thread, an 'exit' of its   *)
(* thread.                                                                 *)
(***************************************************************************)
EXTENDS Integers, Sequences, FiniteSets, TLC

\* ------------------------------------------------------------------ bounds
MaxThreads == 3        \* threads one worker object creates in a run
MaxCalls == 2          \* calls handed to send in a run
MaxEnds == 2           \* invocations of one completion callback that are followed
MaxRetriesBound == 1   \* options.maxRetries ranges over 0..MaxRetriesBound

\* ------------------------------------------------------------- JS values
\* A JS value is a tagged record: null, a primitive, a plain object (a map
\* from keys to values), or an Error instance (its constructor and its own
\* properties).
Null == [t |-> "null"]
Prim(v) == [t |-> "prim", v |-> v]
Obj(f) == [t |-> "obj", f |-> f]
ErrorObj(ctor, f) == [t |-> "error", ctor |-> ctor, f |-> f]

\* this._retries is declared and never assigned before initialize() applies
\* ++ to it: undefined++ is NaN, NaN++ is NaN, and NaN > n is false.
NaN == -1
\* this._onProcessEnd before the first send.
undefined == 0

Increment(n) == IF n = NaN THEN NaN ELSE n + 1
\* initialize() comparing with >= where the code compares with >.
GreaterOrEqual(a, b) == a # NaN /\ b # NaN /\ a >= b
GreaterThan(a, b) == a # NaN /\ b # NaN /\ a > b

\* ------------------------------------------------------------ protocol tags
CHILD_MESSAGE_INITIALIZE == "INITIALIZE"
CHILD_MESSAGE_CALL == "CALL"
PARENT_MESSAGE_OK == "OK"
PARENT_MESSAGE_CLIENT_ERROR == "CLIENT_ERROR"
PARENT_MESSAGE_SETUP_ERROR == "SETUP_ERROR"
\* Named by the protocol table; NodeThreadsWorker.js neither imports nor
\* handles it.
PARENT_MESSAGE_CUSTOM_MESSAGE == "CUSTOM_MESSAGE"

\* Constructor names that global[name] resolves to a function for.
NativeCtors == {"Error", "TypeError"}

\* --------------------------------------------------------------- inputs
Kinds == {"TypeError", "CustomError"}
ExtraFields ==
  { [k \in {"code"} |-> "E42"],
    [k \in {"type"} |-> "extraType"],
    [k \in {"message", "stack"} |-> "extra_" \o k] }
Extras == {Null, Prim("thrown string")} \cup {Obj(f) : f \in ExtraFields}
Results == {Prim("r1"), Null}

OkResponses == {<<PARENT_MESSAGE_OK, r>> : r \in Results}
ClientErrorResponses ==
  {<<PARENT_MESSAGE_CLIENT_ERROR, k, "boom", "at f (w.js:1)", x>> :
     k \in Kinds, x \in Extras}
SetupErrorResponses ==
  {<<PARENT_MESSAGE_SETUP_ERROR, "Error", "no module", "at setup (w.js:2)">>}
CustomResponses == {<<PARENT_MESSAGE_CUSTOM_MESSAGE, Prim("progress")>>}
UnknownResponses == {<<"BOGUS">>}
TerminalResponses == OkResponses \cup ClientErrorResponses \cup SetupErrorResponses
Responses == TerminalResponses \cup CustomResponses \cup UnknownResponses

Requests ==
  { <<CHILD_MESSAGE_CALL, FALSE, "foo", <<"a1">> >>,
    <<CHILD_MESSAGE_CALL, FALSE, "bar", <<>> >> }

ExitCodes == {0, 1}

\* ---------------------------------------------------------------- state
VARIABLES
  worker,        \* this._worker: the thread the object holds (threads are numbered from 1)
  retries,       \* this._retries
  onProcessEnd,  \* this._onProcessEnd: the call whose completion callback is stored
  options,       \* this._options
  posted,        \* posted[i]: the messages postMessage handed to thread i, in order
  endCount,      \* endCount[c]: how often call c's completion callback has run
  effects,       \* what the last handler did, in order
  exited,        \* whether the thread the object holds has exited
  ncalls,        \* calls handed to send so far; call c is the c-th send
  sentTo,        \* the thread the last send posted its request to
  exitRun,       \* non-zero exits since the last send (since construction before it)
  lastEv,        \* the event the last handler reacted to
  \* e2e/runJest.js, until(dir, args, text, options)
  text,          \* the text looked for, a sequence of characters
  untilOptions,  \* options, and whether dir holds a package.json
  proc,          \* the spawned jest process
  promise,       \* the promise until returns
  pipe,          \* the Writable that proc.stderr is piped into
  \* SearchSource
  context,       \* the SearchSource's context: config and hasteFS
  searchCall,    \* the last method called, with its arguments
  searchReturn   \* what that call returned or threw

workerVars == <<worker, retries, onProcessEnd, options, posted, endCount, effects,
                exited, ncalls, sentTo, exitRun, lastEv>>
untilVars == <<text, untilOptions, proc, promise, pipe>>
searchVars == <<context, searchCall, searchReturn>>
vars == <<workerVars, untilVars, searchVars>>

\* The object as a record, for the handlers below.
This ==
  [worker |-> worker, retries |-> retries, onProcessEnd |-> onProcessEnd,
   options |-> options, posted |-> posted, endCount |-> endCount,
   effects |-> <<>>]

\* --------------------------------------------------------------- handlers
throw(s, name, message) ==
  [s EXCEPT !.effects = Append(@, <<"throw", name, message>>)]

\* new Worker(...), and the 'message' and 'exit' listeners bound to it.
newWorker(s) ==
  LET id == Len(s.posted) + 1
  IN [s EXCEPT !.worker = id,
               !.posted = Append(@, <<>>),
               !.effects = Append(@, <<"spawn", id>>)]

\* this._worker.postMessage(msg)
postMessage(s, msg) ==
  [s EXCEPT !.posted[s.worker] = Append(@, msg),
            !.effects = Append(@, <<"post", s.worker, msg>>)]

\* this._onProcessEnd(error, result)
callOnProcessEnd(s, error, result) ==
  IF s.onProcessEnd = undefined
  THEN throw(s, "TypeError", "this._onProcessEnd is not a function")
  ELSE [s EXCEPT !.endCount[s.onProcessEnd] = @ + 1,
                 !.effects = Append(@, <<"end", s.onProcessEnd, error, result>>)]

\* The error the CLIENT_ERROR case hands to the callback.
clientError(response) ==
  LET extra == response[5]
  IN IF extra.t = "obj"
     THEN LET base == [message |-> response[3], type |-> response[2],
                       stack |-> response[4]]
              Ctor == IF response[2] \in NativeCtors THEN response[2] ELSE "Error"
          IN ErrorObj(Ctor,
               [k \in DOMAIN base \cup DOMAIN extra.f |->
                  IF k \in DOMAIN extra.f THEN extra.f[k] ELSE base[k]])
     ELSE extra

\* The error the SETUP_ERROR case hands to the callback.
setupError(response) ==
  ErrorObj("Error",
    [message |-> "Error when calling setup: " \o response[3],
     type |-> response[2], stack |-> response[4]])

\* onMessage with a CLIENT_ERROR case that also restarts the thread: after
\* the callback it creates a new thread and posts INITIALIZE to it.
onMessageRespawning(s, response) ==
  LET again(u) ==
        postMessage(newWorker(u), <<CHILD_MESSAGE_INITIALIZE, FALSE,
                                    u.options.workerPath, u.options.setupArgs>>)
  IN CASE response[1] = PARENT_MESSAGE_OK ->
            callOnProcessEnd(s, Null, response[2])
       [] response[1] = PARENT_MESSAGE_CLIENT_ERROR ->
            again(callOnProcessEnd(s, clientError(response), Null))
       [] response[1] = PARENT_MESSAGE_SETUP_ERROR ->
            callOnProcessEnd(s, setupError(response), Null)
       [] OTHER ->
            throw(s, "TypeError", "Unexpected response from worker: " \o response[1])

\* onMessage with a SETUP_ERROR case that keeps the error from the caller
\* and restarts the thread instead.
onMessageSetupRetry(s, response) ==
  CASE response[1] = PARENT_MESSAGE_OK ->
         callOnProcessEnd(s, Null, response[2])
    [] response[1] = PARENT_MESSAGE_CLIENT_ERROR ->
         callOnProcessEnd(s, clientError(response), Null)
    [] response[1] = PARENT_MESSAGE_SETUP_ERROR ->
         postMessage(newWorker(s), <<CHILD_MESSAGE_INITIALIZE, FALSE,
                                     s.options.workerPath, s.options.setupArgs>>)
    [] OTHER ->
         throw(s, "TypeError", "Unexpected response from worker: " \o response[1])

\* onMessage with a default case that drops the message instead of throwing.
onMessageLenient(s, response) ==
  CASE response[1] = PARENT_MESSAGE_OK ->
         callOnProcessEnd(s, Null, response[2])
    [] response[1] = PARENT_MESSAGE_CLIENT_ERROR ->
         callOnProcessEnd(s, clientError(response), Null)
    [] response[1] = PARENT_MESSAGE_SETUP_ERROR ->
         callOnProcessEnd(s, setupError(response), Null)
    [] OTHER -> s

onMessage(s, response) ==
  CASE response[1] = PARENT_MESSAGE_OK ->
         callOnProcessEnd(s, Null, response[2])
    [] response[1] = PARENT_MESSAGE_CLIENT_ERROR ->
         callOnProcessEnd(s, clientError(response), Null)
    [] response[1] = PARENT_MESSAGE_SETUP_ERROR ->
         callOnProcessEnd(s, setupError(response), Null)
    [] OTHER ->
         throw(s, "TypeError", "Unexpected response from worker: " \o response[1])

\* The reply initialize() emulates once the retries are exceeded.
RetriesExceeded ==
  <<PARENT_MESSAGE_CLIENT_ERROR, "Error", "Call retries were exceeded",
    "Error: Call retries were exceeded", Obj([type |-> "WorkerError"])>>

\* initialize() posting INITIALIZE before it replaces the thread, so that the
\* message goes to the thread that just ended.
initializePostFirst(s) ==
  LET s1 == IF s.worker = 0 THEN newWorker(s) ELSE s
      s2 == postMessage(s1, <<CHILD_MESSAGE_INITIALIZE, FALSE,
                              s.options.workerPath, s.options.setupArgs>>)
      s3 == IF s.worker = 0 THEN s2 ELSE newWorker(s2)
      s4 == [s3 EXCEPT !.retries = Increment(@)]
  IN IF GreaterThan(s4.retries, s4.options.maxRetries)
     THEN onMessage(s4, RetriesExceeded)
     ELSE s4

initialize(s) ==
  LET s1 == newWorker(s)
      s2 == postMessage(s1, <<CHILD_MESSAGE_INITIALIZE, FALSE,
                              s.options.workerPath, s.options.setupArgs>>)
      s3 == [s2 EXCEPT !.retries = Increment(@)]
  IN IF GreaterThan(s3.retries, s3.options.maxRetries)
     THEN onMessage(s3, RetriesExceeded)
     ELSE s3

\* onExit without the test of the exit code.
onExitAlways(s, exitCode) == initialize(s)

onExit(s, exitCode) ==
  IF exitCode # 0 THEN initialize(s) ELSE s

\* send posting a copy of the request that lost its arguments.
sendWithoutArgs(s, request, onProcessStart, onProcessEnd_) ==
  LET s1 == [s EXCEPT !.effects = Append(@, <<"start", onProcessStart, "this">>)]
      s2 == [s1 EXCEPT !.onProcessEnd = onProcessEnd_]
      s3 == [s2 EXCEPT !.retries = 0]
  IN postMessage(s3, <<request[1], request[2], request[3], <<>> >>)

\* send without the reset of this._retries.
sendKeepRetries(s, request, onProcessStart, onProcessEnd_) ==
  LET s1 == [s EXCEPT !.effects = Append(@, <<"start", onProcessStart, "this">>)]
      s2 == [s1 EXCEPT !.onProcessEnd = onProcessEnd_]
  IN postMessage(s2, request)

send(s, request, onProcessStart, onProcessEnd_) ==
  LET s1 == [s EXCEPT !.effects = Append(@, <<"start", onProcessStart, "this">>)]
      s2 == [s1 EXCEPT !.onProcessEnd = onProcessEnd_]
      s3 == [s2 EXCEPT !.retries = 0]
  IN postMessage(s3, request)

constructor(opts) ==
  initialize([worker |-> 0, retries |-> NaN, onProcessEnd |-> undefined,
              options |-> opts, posted |-> <<>>,
              endCount |-> [c \in 1..MaxCalls |-> 0], effects |-> <<>>])

\* ------------------------------------------------------------ environment
\* The farm hands a call to a worker only while no call is in flight on it.
WorkerIdle == IF onProcessEnd = undefined THEN TRUE ELSE endCount[onProcessEnd] > 0
InFlight == IF onProcessEnd = undefined THEN FALSE ELSE endCount[onProcessEnd] = 0

\* The runs followed are cut where a callback would run more than MaxEnds
\* times or more than MaxThreads threads would exist.
Bounded(t) ==
  /\ Len(t.posted) <= MaxThreads
  /\ \A c \in 1..MaxCalls : t.endCount[c] <= MaxEnds

Commit(t) ==
  /\ worker' = t.worker
  /\ retries' = t.retries
  /\ onProcessEnd' = t.onProcessEnd
  /\ options' = t.options
  /\ posted' = t.posted
  /\ endCount' = t.endCount
  /\ effects' = t.effects

\* No until call has been made.
UntilAtRest ==
  /\ text = <<>>
  /\ untilOptions = [skipPkgJsonCheck |-> FALSE, stripAnsi |-> FALSE,
                     hasPackageJson |-> TRUE]
  /\ proc = [state |-> "none", killed |-> FALSE, code |-> 0]
  /\ promise = [state |-> "none", value |-> <<>>]
  /\ pipe = [chunk |-> <<>>, stuck |-> FALSE, thrown |-> "none"]

\* No SearchSource has been constructed.
SearchAtRest ==
  /\ context = [config |-> [testMatch |-> <<>>, testRegex |-> <<>>,
                            testPathIgnorePatterns |-> <<>>],
                hasteFS |-> <<>>]
  /\ searchCall = <<"none">>
  /\ searchReturn = <<"none">>

\* No worker has been constructed.
WorkerAtRest ==
  /\ worker = 0
  /\ retries = NaN
  /\ onProcessEnd = undefined
  /\ options = [maxRetries |-> 0]
  /\ posted = <<>>
  /\ endCount = [c \in 1..MaxCalls |-> 0]
  /\ effects = <<>>
  /\ exited = FALSE
  /\ ncalls = 0
  /\ sentTo = 0
  /\ exitRun = 0
  /\ lastEv = <<"none">>

Init ==
  /\ UntilAtRest
  /\ SearchAtRest
  /\ \E m \in 0..MaxRetriesBound :
      LET t == constructor([maxRetries |-> m, workerPath |-> "/farm/w.js",
                            setupArgs |-> <<"setup">>, workerId |-> 1])
      IN /\ worker = t.worker
         /\ retries = t.retries
         /\ onProcessEnd = t.onProcessEnd
         /\ options = t.options
         /\ posted = t.posted
         /\ endCount = t.endCount
         /\ effects = t.effects
         /\ exited = FALSE
         /\ ncalls = 0
         /\ sentTo = 0
         /\ exitRun = 0
         /\ lastEv = <<"new">>

Send(request) ==
  /\ WorkerIdle
  /\ ncalls < MaxCalls
  /\ Commit(send(This, request, ncalls + 1, ncalls + 1))
  /\ ncalls' = ncalls + 1
  /\ sentTo' = worker
  /\ exitRun' = 0
  /\ lastEv' = <<"send", request, ncalls + 1>>
  /\ UNCHANGED <<exited, untilVars, searchVars>>

Message(response) ==
  /\ ~exited
  /\ Bounded(onMessage(This, response))
  /\ Commit(onMessage(This, response))
  /\ lastEv' = <<"message", response>>
  /\ UNCHANGED <<exited, ncalls, sentTo, exitRun, untilVars, searchVars>>

Exit(exitCode) ==
  /\ ~exited
  /\ Bounded(onExit(This, exitCode))
  /\ Commit(onExit(This, exitCode))
  /\ exited' = (exitCode = 0)
  /\ exitRun' = IF exitCode # 0 THEN exitRun + 1 ELSE exitRun
  /\ lastEv' = <<"exit", exitCode>>
  /\ UNCHANGED <<ncalls, sentTo, untilVars, searchVars>>

Next ==
  \/ \E request \in Requests : Send(request)
  \/ \E response \in Responses : Message(response)
  \/ \E exitCode \in ExitCodes : Exit(exitCode)

Spec == Init /\ [][Next]_vars

\* A thread that follows the protocol: it answers a CALL it received, once,
\* with OK, CLIENT_ERROR or SETUP_ERROR, and says nothing else.
PendingOnThread == InFlight /\ ~exited /\ sentTo = worker

Answer(response) ==
  /\ PendingOnThread
  /\ Message(response)

\* The farm sends no call to a worker whose thread has ended.
SendToLive(request) ==
  /\ ~exited
  /\ Send(request)

ProtocolNext ==
  \/ \E request \in Requests : SendToLive(request)
  \/ \E response \in TerminalResponses : Answer(response)
  \/ \E exitCode \in ExitCodes : Exit(exitCode)

\* Every thread that holds an unanswered CALL eventually answers it or exits.
ThreadResponds ==
  /\ PendingOnThread
  /\ \/ \E response \in TerminalResponses : Answer(response)
     \/ \E exitCode \in ExitCodes : Exit(exitCode)

ProtocolSpec == Init /\ [][ProtocolNext]_vars /\ WF_vars(ThreadResponds)

\* ------------------------------------------------- e2e/runJest.js: until
MaxChunkLen == 2       \* characters in one chunk of stderr
Chars == {"a", "b"}
Strings(n) == UNION {[1..k -> Chars] : k \in 0..n}
Texts == {<<"a">>, <<"a", "b">>, <<"b", "a">>}
Chunks == Strings(MaxChunkLen)
ProcExitCodes == {0, 1}

\* output.includes(text)
includes(output, t) ==
  \E i \in 0..(Len(output) - Len(t)) : SubSeq(output, i + 1, i + Len(t)) = t

\* The write() of the Writable. jestPromise is declared nowhere in the
\* file, so jestPromise.kill() throws a ReferenceError: proc is not killed
\* and the write's callback is never called, which leaves the Writable
\* waiting for it.
write(w, p, chunk, t) ==
  IF includes(chunk, t)
  THEN [pipe |-> [chunk |-> chunk, stuck |-> TRUE, thrown |-> "ReferenceError"],
        proc |-> p]
  ELSE [pipe |-> [chunk |-> chunk, stuck |-> FALSE, thrown |-> "none"],
        proc |-> p]

\* A promise settles once: resolve and reject on a settled promise do nothing.
settle(pr, state, value) ==
  IF pr.state = "pending" THEN [state |-> state, value |-> value] ELSE pr

\* The 'exit' listener's result: proc with status, and stdout and stderr
\* passed through normalizeIcons and, with options.stripAnsi, stripAnsi.
exitResult(p, opts) ==
  LET conv(stream) == IF opts.stripAnsi
                      THEN <<"stripAnsi", <<"normalizeIcons", stream>> >>
                      ELSE <<"normalizeIcons", stream>>
  IN [status |-> p.code, code |-> p.code,
      stdout |-> conv("stdout"), stderr |-> conv("stderr")]

\* until(dir, args, text, options) up to its return.
UntilInit ==
  /\ WorkerAtRest
  /\ SearchAtRest
  /\ text \in Texts
  /\ untilOptions \in [skipPkgJsonCheck : BOOLEAN, stripAnsi : BOOLEAN,
                        hasPackageJson : BOOLEAN]
  /\ pipe = [chunk |-> <<>>, stuck |-> FALSE, thrown |-> "none"]
  /\ IF ~untilOptions.skipPkgJsonCheck /\ ~untilOptions.hasPackageJson
     THEN /\ proc = [state |-> "none", killed |-> FALSE, code |-> 0]
          /\ promise = [state |-> "rejected", value |-> <<"Error", "no package.json">>]
     ELSE /\ proc = [state |-> "running", killed |-> FALSE, code |-> 0]
          /\ promise = [state |-> "pending", value |-> <<>>]

\* proc.stderr hands a chunk to the Writable.
StderrData(chunk) ==
  /\ proc.state = "running"
  /\ ~pipe.stuck
  /\ pipe' = write(pipe, proc, chunk, text).pipe
  /\ proc' = write(pipe, proc, chunk, text).proc
  /\ UNCHANGED <<text, untilOptions, promise, workerVars, searchVars>>

\* proc emits 'exit'.
ProcExit(code) ==
  /\ proc.state = "running"
  /\ proc' = [proc EXCEPT !.state = "exited", !.code = code]
  /\ promise' = settle(promise, "resolved", exitResult(proc', untilOptions))
  /\ UNCHANGED <<text, untilOptions, pipe, workerVars, searchVars>>

\* proc emits 'error'.
ProcError ==
  /\ proc.state = "running"
  /\ promise.state # "rejected"
  /\ promise' = settle(promise, "rejected", <<"boo">>)
  /\ promise' # promise
  /\ UNCHANGED <<text, untilOptions, proc, pipe, workerVars, searchVars>>

UntilNext ==
  \/ \E chunk \in Chunks : StderrData(chunk)
  \/ \E code \in ProcExitCodes : ProcExit(code)
  \/ ProcError

UntilSpec == UntilInit /\ [][UntilNext]_vars

\* ------------------------------------------------------------ SearchSource
MaxPaths == 2          \* files the haste file system holds
MaxFiltered == 2       \* entries of a filter's filtered list

Files == {"/r/a.test.js", "/r/b.test.js", "/r/a.js",
          "/r/node_modules/a.test.js", "/x/b.test.js"}

\* What the pattern engines answer for each file: the paths under a root,
\* the paths micromatch accepts for config.testMatch, the paths some regex
\* of config.testRegex accepts, the paths the joined ignore pattern
\* accepts, and the paths the regex of a testPathPattern accepts.
rootPattern == Files \ {"/x/b.test.js"}
micromatch == Files \ {"/r/a.js"}
testRegexSome == Files
testIgnorePattern == {"/r/node_modules/a.test.js"}
testPathPatternToRegExp(testPathPattern) ==
  IF testPathPattern = "a"
  THEN {"/r/a.test.js", "/r/a.js", "/r/node_modules/a.test.js"}
  ELSE {"/r/b.test.js", "/x/b.test.js"}

\* A testPathPattern; the empty string is the value of "no pattern".
Patterns == {"", "a", "b"}
Globs == {<<>>, <<"**/*.test.js">>}
Regexes == {<<>>, <<"\\.js$">>}
IgnorePatterns == {<<>>, <<"/node_modules/">>}
Lists(S, n) == UNION {[1..k -> S] : k \in 0..n}

globsToMatcher(globs) ==
  IF Len(globs) = 0 THEN [path \in Files |-> TRUE]
  ELSE [path \in Files |-> path \in micromatch]

regexToMatcher(testRegex) ==
  IF Len(testRegex) = 0 THEN [path \in Files |-> TRUE]
  ELSE [path \in Files |-> path \in testRegexSome]

toTests(tests) == [i \in 1..Len(tests) |-> [path |-> tests[i]]]

\* this._testPathCases as the constructor builds it, and the order of its keys.
_testPathCases(config) ==
  [roots |-> [path \in Files |-> path \in rootPattern],
   testMatch |-> globsToMatcher(config.testMatch),
   testPathIgnorePatterns |->
     [path \in Files |-> Len(config.testPathIgnorePatterns) = 0
                           \/ path \notin testIgnorePattern],
   testRegex |-> regexToMatcher(config.testRegex)]
_testPathCasesKeys == <<"roots", "testMatch", "testPathIgnorePatterns", "testRegex">>

\* testCases and Object.keys(testCases) in _filterTestPathsWithStats.
testCasesOf(config, testPathPattern) ==
  IF testPathPattern # ""
  THEN [key \in {"roots", "testMatch", "testPathIgnorePatterns", "testRegex",
                 "testPathPattern"} |->
          IF key = "testPathPattern"
          THEN [path \in Files |-> path \in testPathPatternToRegExp(testPathPattern)]
          ELSE _testPathCases(config)[key]]
  ELSE _testPathCases(config)
testCasesKeys(testPathPattern) ==
  IF testPathPattern # "" THEN Append(_testPathCasesKeys, "testPathPattern")
  ELSE _testPathCasesKeys

\* data.stats[key] = value
setStat(stats, key, value) ==
  [k \in DOMAIN stats \cup {key} |-> IF k = key THEN value ELSE stats[k]]

\* A reducer that stops counting at the first predicate a path fails.
RECURSIVE reduceUntilFalse(_, _, _, _, _)
reduceUntilFalse(testCases, keys, path, flag, stats) ==
  IF keys = <<>> \/ ~flag THEN [flag |-> flag, stats |-> stats]
  ELSE LET key == Head(keys)
       IN IF testCases[key][path]
          THEN reduceUntilFalse(testCases, Tail(keys), path, flag,
                 setStat(stats, key,
                         IF key \in DOMAIN stats THEN stats[key] + 1 ELSE 1))
          ELSE reduceUntilFalse(testCases, Tail(keys), path, FALSE,
                 setStat(stats, key,
                         IF key \in DOMAIN stats THEN stats[key] ELSE 0))

\* testCasesKeys.reduce(..., true) for one path: every key is visited.
\* ++data.stats[key] || 1 is 1 for a missing key and the count plus one
\* otherwise; data.stats[key] || 0 is 0 for a missing key.
RECURSIVE reduce(_, _, _, _, _)
reduce(testCases, keys, path, flag, stats) ==
  IF keys = <<>> THEN [flag |-> flag, stats |-> stats]
  ELSE LET key == Head(keys)
       IN IF testCases[key][path]
          THEN reduce(testCases, Tail(keys), path, flag /\ TRUE,
                 setStat(stats, key,
                         IF key \in DOMAIN stats THEN stats[key] + 1 ELSE 1))
          ELSE reduce(testCases, Tail(keys), path, FALSE,
                 setStat(stats, key,
                         IF key \in DOMAIN stats THEN stats[key] ELSE 0))

\* allPaths.filter(...), with the stats the reducer leaves behind.
RECURSIVE filter(_, _, _, _)
filter(testCases, keys, allPaths, data) ==
  IF allPaths = <<>> THEN data
  ELSE LET test == Head(allPaths)
           r == reduce(testCases, keys, test.path, TRUE, data.stats)
       IN filter(testCases, keys, Tail(allPaths),
                 [data EXCEPT !.stats = r.stats,
                              !.tests = IF r.flag THEN Append(@, test) ELSE @])

_filterTestPathsWithStats(config, allPaths, testPathPattern) ==
  filter(testCasesOf(config, testPathPattern), testCasesKeys(testPathPattern),
         allPaths, [stats |-> <<>>, tests |-> <<>>, total |-> Len(allPaths)])

_getAllTestPaths(ctx, testPathPattern) ==
  _filterTestPathsWithStats(ctx.config, toTests(ctx.hasteFS), testPathPattern)

findMatchingTests(ctx, testPathPattern) == _getAllTestPaths(ctx, testPathPattern)

isTestFilePath(ctx, path) ==
  \A i \in 1..Len(_testPathCasesKeys) :
    _testPathCases(ctx.config)[_testPathCasesKeys[i]][path]

\* new SearchSource(context)
SearchInit ==
  /\ WorkerAtRest
  /\ UntilAtRest
  /\ context \in [config : [testMatch : Globs, testRegex : Regexes,
                             testPathIgnorePatterns : IgnorePatterns],
                   hasteFS : Lists(Files, MaxPaths)]
  /\ searchCall = <<"new">>
  /\ searchReturn = <<"return">>

FindMatchingTests(testPathPattern) ==
  /\ searchCall = <<"new">>
  /\ searchCall' = <<"findMatchingTests", testPathPattern>>
  /\ searchReturn' = <<"return", findMatchingTests(context, testPathPattern)>>
  /\ UNCHANGED <<context, workerVars, untilVars>>

IsTestFilePath(path) ==
  /\ searchCall = <<"new">>
  /\ searchCall' = <<"isTestFilePath", path>>
  /\ searchReturn' = <<"return", isTestFilePath(context, path)>>
  /\ UNCHANGED <<context, workerVars, untilVars>>

\* globalConfig: filter is "" when no filter is configured. The model keeps
\* nonFlagArgs empty, and with onlyChanged no root is under source control.
GlobalConfigs ==
  [onlyChanged : BOOLEAN, testPathPattern : {"", "a"},
   filter : {"", "/filter.js"}, skipFilter : BOOLEAN]

\* What a filter module may answer: filtered is an array of {test, message}
\* or something that is not an array.
FilterEntries ==
  [test : {"/r/a.test.js", "/r/b.test.js"}, message : {"m"}]
FilterResults ==
  [filtered : [isArray : {FALSE}, value : {"undefined", "/r/a.test.js"}]
              \cup [isArray : {TRUE}, value : Lists(FilterEntries, MaxFiltered)]]

_getTestPaths(ctx, globalConfig) ==
  IF globalConfig.onlyChanged THEN [noSCM |-> TRUE, tests |-> <<>>]
  ELSE findMatchingTests(ctx, globalConfig.testPathPattern)

\* tests.filter(test => filteredSet.has(test.path))
RECURSIVE filterHas(_, _)
filterHas(tests, filteredSet) ==
  IF tests = <<>> THEN <<>>
  ELSE IF Head(tests).path \in filteredSet
       THEN <<Head(tests)>> \o filterHas(Tail(tests), filteredSet)
       ELSE filterHas(Tail(tests), filteredSet)

\* getTestPaths that runs the filter whatever skipFilter says.
getTestPathsNoSkip(ctx, globalConfig, filterResult) ==
  LET searchResult == _getTestPaths(ctx, globalConfig)
      tests == searchResult.tests
      filtered == filterResult.filtered
  IN IF globalConfig.filter # ""
     THEN IF ~filtered.isArray
          THEN <<"throw", "Error", "did not return a valid test list">>
          ELSE LET filteredSet == {filtered.value[i].test :
                                     i \in 1..Len(filtered.value)}
               IN <<"return", [searchResult EXCEPT
                                 !.tests = filterHas(tests, filteredSet)]>>
     ELSE <<"return", searchResult>>

getTestPaths(ctx, globalConfig, filterResult) ==
  LET searchResult == _getTestPaths(ctx, globalConfig)
      tests == searchResult.tests
      filtered == filterResult.filtered
  IN IF globalConfig.filter # "" /\ ~globalConfig.skipFilter
     THEN IF ~filtered.isArray
          THEN <<"throw", "Error", "did not return a valid test list">>
          ELSE LET filteredSet == {filtered.value[i].test :
                                     i \in 1..Len(filtered.value)}
               IN <<"return", [searchResult EXCEPT
                                 !.tests = filterHas(tests, filteredSet)]>>
     ELSE <<"return", searchResult>>

GetTestPaths(globalConfig, filterResult) ==
  /\ searchCall = <<"new">>
  /\ searchCall' = <<"getTestPaths", globalConfig, filterResult>>
  /\ searchReturn' = getTestPaths(context, globalConfig, filterResult)
  /\ UNCHANGED <<context, workerVars, untilVars>>

\* The methods leave the SearchSource as it is, so each one is applied to
\* the SearchSource as constructed.
SearchNext ==
  \/ \E testPathPattern \in Patterns : FindMatchingTests(testPathPattern)
  \/ \E path \in Files : IsTestFilePath(path)
  \/ \E globalConfig \in GlobalConfigs, filterResult \in FilterResults :
       GetTestPaths(globalConfig, filterResult)

SearchSpec == SearchInit /\ [][SearchNext]_vars

\* ------------------------------------------------------------ effect queries
Did(eff, kind) == \E i \in DOMAIN eff : eff[i][1] = kind
EndsOf(eff) == {i \in DOMAIN eff : eff[i][1] = "end"}
\* The handler respawned: a thread was created and INITIALIZE posted to it.
Respawned(eff) ==
  \E i, j \in DOMAIN eff :
    /\ eff[i][1] = "spawn"
    /\ eff[j][1] = "post"
    /\ i < j
    /\ eff[j][2] = eff[i][2]
    /\ eff[j][3][1] = CHILD_MESSAGE_INITIALIZE
\* The handler failed call c with the 'Call retries were exceeded' error.
FailedExceeded(eff, c) ==
  \E i \in EndsOf(eff) :
    /\ eff[i][2] = c
    /\ eff[i][3].t = "error"
    /\ eff[i][3].f.message = "Call retries were exceeded"
    /\ eff[i][4] = Null
MessageStep(tags) == lastEv'[1] = "message" /\ lastEv'[2][1] \in tags
ExitStep == lastEv'[1] = "exit"

\* ------------------------------------------------------------------ claims

\* C1: every call handed to send eventually has its completion callback
\* invoked, when every thread holding an unanswered CALL eventually answers
\* it or exits.
C1_EveryCallEnds ==
  \A c \in 1..MaxCalls : (ncalls >= c) ~> (endCount[c] > 0)

\* C2: the completion callback passed to one send is invoked at most once.
C2_AtMostOnce ==
  \A c \in 1..MaxCalls : endCount[c] <= 1

\* C3: in a run of non-zero exits after a send, every exit respawns the
\* worker and leaves retries equal to the number of exits of the run; the
\* call in flight is failed with 'Call retries were exceeded' on the exit
\* that is the (maxRetries + 1)-th of the run and on no earlier one.
C3_RetryBound ==
  [][(ExitStep /\ lastEv'[2] # 0 /\ InFlight)
       => /\ Respawned(effects')
          /\ worker' = Len(posted) + 1
          /\ retries' = exitRun'
          /\ FailedExceeded(effects', onProcessEnd)
               <=> (exitRun' = options.maxRetries + 1)
          /\ exitRun' <= options.maxRetries => EndsOf(effects') = {}]_vars

C3_Witness ==
  /\ lastEv = <<"exit", 1>>
  /\ options.maxRetries >= 1
  /\ exitRun = options.maxRetries + 1
  /\ onProcessEnd # undefined
  /\ endCount[onProcessEnd] = 1
  /\ FailedExceeded(effects, onProcessEnd)

\* C4: a CLIENT_ERROR received while a call is in flight, whatever its extra
\* payload, invokes the completion callback with a non-null error object
\* whose type, message and stack are those of the message and which carries
\* every field of extra; it is never delivered with a null error.
C4_ClientErrorPreserved ==
  [][(MessageStep({PARENT_MESSAGE_CLIENT_ERROR}) /\ InFlight)
       => \E i \in EndsOf(effects') :
            LET error == effects'[i][3]
                response == lastEv'[2]
            IN /\ effects'[i][2] = onProcessEnd
               /\ error # Null
               /\ error.t = "error"
               /\ error.f.type = response[2]
               /\ error.f.message = response[3]
               /\ error.f.stack = response[4]
               /\ response[5].t = "obj" =>
                    \A k \in DOMAIN response[5].f : error.f[k] = response[5].f[k]]_vars

\* C5: handling an OK or CLIENT_ERROR message leaves the thread handle and
\* retries unchanged, creates no thread and posts nothing.
C5_ReplyNeverRespawns ==
  [][MessageStep({PARENT_MESSAGE_OK, PARENT_MESSAGE_CLIENT_ERROR})
       => /\ worker' = worker
          /\ retries' = retries
          /\ posted' = posted
          /\ ~Did(effects', "spawn")
          /\ ~Did(effects', "post")]_vars

C5_Witness ==
  /\ lastEv[1] = "message"
  /\ lastEv[2][1] = PARENT_MESSAGE_CLIENT_ERROR
  /\ lastEv[2][5].t = "obj"
  /\ Did(effects, "end")
  /\ retries = 1

C7_UnknownTagFailsFast ==
  [][(lastEv'[1] = "message"
        /\ lastEv'[2][1] \notin {PARENT_MESSAGE_OK, PARENT_MESSAGE_CLIENT_ERROR,
                                  PARENT_MESSAGE_SETUP_ERROR,
                                  PARENT_MESSAGE_CUSTOM_MESSAGE})
       => /\ Len(effects') = 1
          /\ effects'[1][1] = "throw"
          /\ effects'[1][2] = "TypeError"
          /\ endCount' = endCount
          /\ worker' = worker
          /\ retries' = retries
          /\ posted' = posted
          /\ onProcessEnd' = onProcessEnd]_vars

C7_Witness ==
  /\ lastEv = <<"message", <<"BOGUS">> >>
  /\ InFlight
  /\ Did(effects, "throw")

\* C8: a CUSTOM_MESSAGE received while a call is in flight is forwarded to
\* the call's onCustomMessage handler; no error is raised, the completion
\* callback is not invoked and the call stays in flight.
C8_CustomMessageForwarded ==
  [][(MessageStep({PARENT_MESSAGE_CUSTOM_MESSAGE}) /\ InFlight)
       => /\ ~Did(effects', "throw")
          /\ ~Did(effects', "end")
          /\ Did(effects', "custom")
          /\ InFlight']_vars

\* Threads created by exits since the last send, or since construction
\* before the first one.
RespawnsInRun == IF ncalls = 0 THEN Len(posted) - 1 ELSE Len(posted) - sentTo

\* C9: a worker that keeps crashing performs at most maxRetries + 1 respawns
\* in a run of exits with no send in between.
C9_RespawnsBounded ==
  RespawnsInRun <= options.maxRetries + 1

\* C10: send posts the request to the thread exactly as it was given, and an
\* OK message received after a send invokes the stored completion callback
\* once, with a null error and the message's result.
C10_RoundTrip ==
  [][((lastEv'[1] = "send") =>
        (/\ posted' = [posted EXCEPT ![worker] = Append(@, lastEv'[2])]
         /\ effects'[Len(effects')] = <<"post", worker, lastEv'[2]>>
         /\ worker' = worker))
     /\
     ((MessageStep({PARENT_MESSAGE_OK}) /\ onProcessEnd # undefined) =>
        (effects' = << <<"end", onProcessEnd, Null, lastEv'[2][2]>> >>))]_vars

C10_Witness ==
  /\ lastEv = <<"message", <<PARENT_MESSAGE_OK, Prim("r1")>> >>
  /\ ncalls = 1
  /\ posted[1][2] = <<CHILD_MESSAGE_CALL, FALSE, "foo", <<"a1">> >>
  /\ effects = << <<"end", 1, Null, Prim("r1")>> >>
  /\ endCount[1] = 1

\* The request of the call in flight: the last message send posted.
InFlightRequest == posted[sentTo][Len(posted[sentTo])]

\* C11: a non-zero exit while a call is in flight that leaves retries within
\* maxRetries transmits the call's request again, to the new thread, after
\* its INITIALIZE.
C11_TransparentRetry ==
  [][(ExitStep /\ lastEv'[2] # 0 /\ InFlight
        /\ ~GreaterThan(retries', options.maxRetries))
       => /\ Len(posted'[worker']) = 2
          /\ posted'[worker'][1][1] = CHILD_MESSAGE_INITIALIZE
          /\ posted'[worker'][2] = InFlightRequest]_vars

\* C12: an exit with code 0 while a call is in flight, which no respawn
\* follows, invokes the call's completion callback with an error.
C12_ExitFailsInFlightCall ==
  [][(ExitStep /\ lastEv'[2] = 0 /\ InFlight)
       => \E i \in EndsOf(effects') :
            /\ effects'[i][2] = onProcessEnd
            /\ effects'[i][3] # Null]_vars

\* C13: onExit with a non-zero code runs initialize() once: one thread is
\* created, one INITIALIZE is posted, to it, and retries is incremented
\* once. With code 0 it does nothing: the thread handle, retries, the stored
\* callback and the posted messages are unchanged and no callback runs.
C13_OnExit ==
  [][ExitStep
       => IF lastEv'[2] # 0
          THEN /\ Cardinality({i \in DOMAIN effects' : effects'[i][1] = "spawn"}) = 1
               /\ Cardinality({i \in DOMAIN effects' : effects'[i][1] = "post"}) = 1
               /\ Respawned(effects')
               /\ worker' = Len(posted) + 1
               /\ Len(posted') = Len(posted) + 1
               /\ retries' = Increment(retries)
          ELSE /\ effects' = <<>>
               /\ worker' = worker
               /\ retries' = retries
               /\ onProcessEnd' = onProcessEnd
               /\ posted' = posted
               /\ endCount' = endCount]_vars

C13_Witness ==
  /\ lastEv = <<"exit", 0>>
  /\ InFlight
  /\ retries = 1
  /\ worker = 2
  /\ effects = <<>>

\* C14: send invokes the call's start callback once, with the worker as
\* argument, and then posts the request; it leaves retries at 0.
C14_SendStartsThenPosts ==
  [][(lastEv'[1] = "send")
       => /\ effects' = << <<"start", lastEv'[3], "this">>,
                           <<"post", worker, lastEv'[2]>> >>
          /\ retries' = 0]_vars

\* The second send, to a thread that a non-zero exit after the first send
\* created: retries was 1 or more before it.
C14_Witness ==
  /\ lastEv[1] = "send"
  /\ ncalls = 2
  /\ sentTo = 2
  /\ Len(posted[1]) = 2
  /\ Len(posted[2]) = 2
  /\ retries = 0

\* C15: every thread the worker created has been posted exactly one
\* INITIALIZE, carrying the configured worker path and setup args, and as
\* the first message posted to it.
C15_OneInitializePerThread ==
  \A i \in DOMAIN posted :
    /\ Len(posted[i]) >= 1
    /\ posted[i][1] = <<CHILD_MESSAGE_INITIALIZE, FALSE,
                        options.workerPath, options.setupArgs>>
    /\ \A j \in 2..Len(posted[i]) : posted[i][j][1] # CHILD_MESSAGE_INITIALIZE

C15_Witness ==
  /\ Len(posted) = 3
  /\ Len(posted[2]) = 2
  /\ posted[2][2][1] = CHILD_MESSAGE_CALL
  /\ Len(posted[3]) = 1

\* initialize() runs since the last send, or since construction (which runs
\* it once) before the first send.
InitializeRuns == IF ncalls = 0 THEN Len(posted) ELSE Len(posted) - sentTo

\* C16: retries is a non-negative integer, equal to the number of
\* initialize() runs since the last send, or since and including
\* construction before the first send.
C16_RetriesCountsInitializeRuns ==
  /\ retries >= 0
  /\ retries = InitializeRuns

\* C17: a chunk of stderr that contains the text kills the process; the
\* promise resolves with the process result when the process emits 'exit'
\* and rejects when it emits 'error'.
C17_UntilKillsOnText ==
  [][/\ (pipe' # pipe /\ includes(pipe'.chunk, text)) => proc'.killed
     /\ (proc.state = "running" /\ proc'.state = "exited"
           /\ promise.state = "pending")
          => promise' = [state |-> "resolved",
                         value |-> exitResult(proc', untilOptions)]]_vars

\* The paths of allPaths that satisfy predicate key, counted with repeats.
CountSatisfying(testCases, key, allPaths) ==
  Cardinality({i \in 1..Len(allPaths) : testCases[key][allPaths[i].path]})

\* The tests of allPaths that satisfy every predicate of keys, in order.
RECURSIVE SatisfyingAll(_, _, _)
SatisfyingAll(testCases, keys, allPaths) ==
  IF allPaths = <<>> THEN <<>>
  ELSE (IF \A i \in 1..Len(keys) : testCases[keys[i]][Head(allPaths).path]
        THEN <<Head(allPaths)>> ELSE <<>>)
       \o SatisfyingAll(testCases, keys, Tail(allPaths))

\* The tests of allPaths that isTestFilePath accepts, in order.
RECURSIVE Accepted(_, _)
Accepted(ctx, allPaths) ==
  IF allPaths = <<>> THEN <<>>
  ELSE (IF isTestFilePath(ctx, Head(allPaths).path)
        THEN <<Head(allPaths)>> ELSE <<>>)
       \o Accepted(ctx, Tail(allPaths))

\* What C18 says of tests and total.
C18_TestsAndTotal ==
  LET pattern == searchCall[2]
      data == searchReturn[2]
      allPaths == toTests(context.hasteFS)
  IN /\ data.tests = SatisfyingAll(testCasesOf(context.config, pattern),
                                   testCasesKeys(pattern), allPaths)
     /\ pattern = "" => data.tests = Accepted(context, allPaths)
     /\ data.total = Len(allPaths)

\* What C18 says of stats.
C18_StatsCounted ==
  LET pattern == searchCall[2]
      data == searchReturn[2]
      keys == testCasesKeys(pattern)
      allPaths == toTests(context.hasteFS)
  IN \A i \in 1..Len(keys) :
       /\ keys[i] \in DOMAIN data.stats
       /\ data.stats[keys[i]]
            = CountSatisfying(testCasesOf(context.config, pattern), keys[i], allPaths)

\* C18: for every list of paths, tests holds exactly the paths that satisfy
\* every predicate, in input order, which without a testPathPattern are the
\* paths isTestFilePath accepts; total is the number of input paths; and
\* stats[key] is the number of input paths that satisfy key alone.
C18_FilterWithStats ==
  searchCall[1] = "findMatchingTests" => (C18_TestsAndTotal /\ C18_StatsCounted)

\* C18 as the code has it: the same, except that for an empty list stats
\* has no key at all.
C18_FilterWithStatsNonEmpty ==
  searchCall[1] = "findMatchingTests" =>
    /\ C18_TestsAndTotal
    /\ IF context.hasteFS = <<>> THEN DOMAIN searchReturn[2].stats = {}
       ELSE C18_StatsCounted

C18_Witness ==
  /\ searchCall = <<"findMatchingTests", "a">>
  /\ context.hasteFS = <<"/x/b.test.js", "/r/a.test.js">>
  /\ Len(context.config.testMatch) > 0
  /\ searchReturn[2].tests = << [path |-> "/r/a.test.js"] >>
  /\ searchReturn[2].stats["roots"] = 1
  /\ searchReturn[2].stats["testMatch"] = 2
  /\ searchReturn[2].stats["testPathPattern"] = 1

\* C19: with a filter configured and skipFilter false, getTestPaths returns
\* the search result with tests narrowed, in their order, to those whose
\* path is listed in filtered, every other field kept, and throws when
\* filtered is not an array; with no filter, or with skipFilter, it returns
\* the search result unchanged.
C19_GetTestPathsFilters ==
  searchCall[1] = "getTestPaths" =>
    LET globalConfig == searchCall[2]
        filtered == searchCall[3].filtered
        searchResult == _getTestPaths(context, globalConfig)
        tests == searchResult.tests
        listed(path) == \E i \in 1..Len(filtered.value) : filtered.value[i].test = path
        kept == {i \in 1..Len(tests) : listed(tests[i].path)}
    IN IF globalConfig.filter # "" /\ ~globalConfig.skipFilter
       THEN IF filtered.isArray
            THEN /\ searchReturn[1] = "return"
                 /\ DOMAIN searchReturn[2] = DOMAIN searchResult
                 /\ \A f \in DOMAIN searchResult \ {"tests"} :
                      searchReturn[2][f] = searchResult[f]
                 /\ Len(searchReturn[2].tests) = Cardinality(kept)
                 /\ \A n \in 1..Len(searchReturn[2].tests) :
                      \E i \in kept :
                        /\ searchReturn[2].tests[n] = tests[i]
                        /\ Cardinality({j \in kept : j < i}) = n - 1
            ELSE searchReturn[1] = "throw" /\ searchReturn[2] = "Error"
       ELSE searchReturn = <<"return", searchResult>>

C19_Witness ==
  /\ searchCall[1] = "getTestPaths"
  /\ searchCall[2].filter = "/filter.js" /\ ~searchCall[2].skipFilter
  /\ context.hasteFS = <<"/r/a.test.js", "/r/b.test.js">>
  /\ searchCall[3].filtered.isArray
  /\ searchCall[3].filtered.value = << [test |-> "/r/b.test.js", message |-> "m"] >>
  /\ searchReturn[1] = "return"
  /\ searchReturn[2].tests = << [path |-> "/r/b.test.js"] >>
  /\ searchReturn[2].total = 2

====
